---- MODULE Spec2Model ----
(***************************************************************************)
(* Model of MissionConfig.satisfied_waypoints and                          *)
(* MissionConfig.evaluate_teams (server/auvsi_suas/models/                  *)
(* mission_config.py).                                                     *)
(*                                                                         *)
(* The database rows the two methods read (users, takeoff/landing events,  *)
(* telemetry, access logs, mission waypoints, fly zones, obstacles) are    *)
(* the state chosen by Init; they are never written by the methods.        *)
(* evaluate_teams is modelled one loop iteration per step.                 *)
(*                                                                         *)
(* Geometry is one-dimensional: a position is an integer, distance_to is   *)
(* the absolute difference, a fly zone is an interval, an obstacle is an   *)
(* interval around its centre.  Timestamps are multiples of 5 seconds.     *)
(***************************************************************************)
EXTENDS Integers, Sequences, FiniteSets, TLC

\* ------------------------------------------------------------------ bounds
NumUsers == 2
MaxTick == 4
MaxPos == 2
MaxSamples == 2
MaxWaypoints == 2

Users == 1..NumUsers
Times == {5 * k : k \in 0..MaxTick}
LastTime == 5 * MaxTick
Positions == 0..MaxPos
Thresholds == 0..MaxPos

\* Python's None, and a number n/d in lowest terms (the rate statistics are
\* floats; 7.5 is <<15, 2>>).
None == <<>>

RECURSIVE GCD(_, _)
GCD(a, b) == IF b = 0 THEN a ELSE GCD(b, a % b)

Number(n, d) == <<n \div GCD(n, d), d \div GCD(n, d)>>

\* ---------------------------------------------------------------- helpers
Abs(x) == IF x < 0 THEN -x ELSE x

Range(s) == {s[i] : i \in 1..Len(s)}

RECURSIVE SumSeq(_)
SumSeq(s) == IF s = <<>> THEN 0 ELSE Head(s) + SumSeq(Tail(s))

RECURSIVE MaxSeq(_)
MaxSeq(s) ==
    IF Len(s) = 1 THEN Head(s)
    ELSE LET m == MaxSeq(Tail(s)) IN IF Head(s) > m THEN Head(s) ELSE m

RECURSIVE Flatten(_)
Flatten(ss) == IF ss = <<>> THEN <<>> ELSE Head(ss) \o Flatten(Tail(ss))

\* The elements of a set of integers in ascending order.
RECURSIVE Ascending(_)
Ascending(S) ==
    IF S = {} THEN <<>>
    ELSE LET m == CHOOSE x \in S : \A y \in S : x <= y
         IN  <<m>> \o Ascending(S \ {m})

\* ------------------------------------------------------------------ state
VARIABLES
    is_superuser,           \* User.is_superuser, per user
    events,                 \* TakeoffOrLandingEvent rows per user, by time
    telemetry,              \* UasTelemetry rows per user, by time
    server_info_access,     \* ServerInfoAccessLog timestamps per user
    obstacle_access,        \* ObstacleAccessLog timestamps per user
    mission_waypoints,      \* Waypoint rows of the mission, in row order
    mission_waypoints_dist_max,
    fly_zones,              \* FlyZone rows
    stationary_obstacles,   \* StationaryObstacle rows
    moving_obstacles,       \* MovingObstacle rows
    pc,                     \* "idle", "loop", "returned", "raised", "sw_returned"
    visited,                \* users the loop of evaluate_teams has taken
    results,                \* evaluate_teams' results map
    out_of_bounds_time,     \* evaluate_teams' local of that name
    exc,                    \* the exception propagating out of evaluate_teams
    sw_logs,                \* argument of a direct satisfied_waypoints call
    sw_result               \* its return value

database == <<is_superuser, events, telemetry, server_info_access,
              obstacle_access, mission_waypoints, mission_waypoints_dist_max,
              fly_zones, stationary_obstacles, moving_obstacles>>

vars == <<database, pc, visited, results, out_of_bounds_time, exc,
          sw_logs, sw_result>>

\* ------------------------------------------- collaborators (not in src/)

\* GpsPosition.distance_to / AerialPosition.distance_to
distance_to(a, b) == Abs(a - b)

\* TimePeriod containment of a timestamp
within(period, t) == period.start <= t /\ t <= period.end

\* TakeoffOrLandingEvent.flights: each takeoff paired with the next landing.
\* A landing with no takeoff before it, or a takeoff never followed by a
\* landing, is a data error.
WellFormedEvents(evs) ==
    /\ Len(evs) % 2 = 0
    /\ \A i \in 1..Len(evs) : evs[i].uas_in_air = (i % 2 = 1)

flights(evs) ==
    IF WellFormedEvents(evs)
    THEN [error |-> FALSE,
          periods |-> [i \in 1..(Len(evs) \div 2) |->
                         [start |-> evs[2 * i - 1].timestamp,
                          end |-> evs[2 * i].timestamp]]]
    ELSE [error |-> TRUE, periods |-> <<>>]

\* UasTelemetry.by_time_period: per period, the rows inside it, in time order.
IsInPeriod(period, log) == within(period, log.timestamp)

by_time_period(logs, periods) ==
    [i \in 1..Len(periods) |->
        SelectSeq(logs, LAMBDA log : IsInPeriod(periods[i], log))]

\* AccessLog.by_time_period on bare timestamps.
access_by_time_period(stamps, periods) ==
    [i \in 1..Len(periods) |->
        SelectSeq(stamps, LAMBDA t : within(periods[i], t))]

\* UasTelemetry.dedupe: of each run of consecutive rows with the same
\* position the first is kept; applied to each period's rows.
RECURSIVE dedupe_logs(_)
dedupe_logs(logs) ==
    IF Len(logs) <= 1 THEN logs
    ELSE LET rest == dedupe_logs(SubSeq(logs, 1, Len(logs) - 1))
             last == logs[Len(logs)]
         IN  IF last.uas_position = logs[Len(logs) - 1].uas_position
             THEN rest
             ELSE Append(rest, last)

dedupe(period_logs) ==
    [i \in 1..Len(period_logs) |-> dedupe_logs(period_logs[i])]

\* FlyZone.contains_pos for one zone, and "inside at least one zone".
in_bounds(zones, pos) == \E z \in zones : z.lo <= pos /\ pos <= z.hi

\* FlyZone.out_of_bounds: the reported time out of bounds of one list of
\* rows: each row that is out of bounds adds the time since the row before.
RECURSIVE out_of_bounds(_, _)
out_of_bounds(zones, logs) ==
    IF Len(logs) <= 1 THEN 0
    ELSE LET n == Len(logs)
             before == out_of_bounds(zones, SubSeq(logs, 1, n - 1))
         IN  IF in_bounds(zones, logs[n].uas_position)
             THEN before
             ELSE before + (logs[n].timestamp - logs[n - 1].timestamp)

\* AccessLog.rates: (max, avg) of the gaps between consecutive timestamps of
\* the same period, over all periods; (None, None) when there is no gap.
gaps_of(stamps) ==
    IF Len(stamps) <= 1 THEN <<>>
    ELSE [i \in 1..(Len(stamps) - 1) |-> stamps[i + 1] - stamps[i]]

rates_of(period_stamps) ==
    LET gaps == Flatten([i \in 1..Len(period_stamps) |->
                            gaps_of(period_stamps[i])])
    IN  IF gaps = <<>> THEN <<None, None>>
        ELSE <<Number(MaxSeq(gaps), 1), Number(SumSeq(gaps), Len(gaps))>>

access_rates(stamps, periods) ==
    rates_of(access_by_time_period(stamps, periods))

\* UasTelemetry.rates with time_period_logs given: the rows' timestamps.
telemetry_rates(period_logs) ==
    rates_of([i \in 1..Len(period_logs) |->
                [k \in 1..Len(period_logs[i]) |->
                    period_logs[i][k].timestamp]])

\* StationaryObstacle.evaluate_collision_with_uas
stationary_collision(obst, logs) ==
    \E k \in 1..Len(logs) :
        distance_to(logs[k].uas_position, obst.position) < obst.radius

\* MovingObstacle.evaluate_collision_with_uas: the obstacle's position is
\* taken at the row's timestamp.
moving_collision(obst, logs) ==
    \E k \in 1..Len(logs) :
        distance_to(logs[k].uas_position, obst.path[logs[k].timestamp])
            < obst.radius

\* ------------------------------------ MissionConfig.satisfied_waypoints

\* self.mission_waypoints.order_by('order'): rows by ascending order; rows of
\* equal order stay in row order, which Init leaves arbitrary.
RECURSIVE insert_by_order(_, _)
insert_by_order(sorted, row) ==
    IF sorted = <<>> THEN <<row>>
    ELSE IF Head(sorted).order <= row.order
         THEN <<Head(sorted)>> \o insert_by_order(Tail(sorted), row)
         ELSE <<row>> \o sorted

RECURSIVE order_by(_)
order_by(rows) ==
    IF rows = <<>> THEN <<>>
    ELSE insert_by_order(order_by(SubSeq(rows, 1, Len(rows) - 1)),
                         rows[Len(rows)])

within_dist_max_inclusive(distance) == distance <= mission_waypoints_dist_max

\* if distance < self.mission_waypoints_dist_max
within_dist_max(distance) == distance < mission_waypoints_dist_max

\* The inner loop: scan the logs from index k, stop at the first one close
\* enough.
RECURSIVE waypoint_satisfied(_, _, _)
waypoint_satisfied(waypoint, logs, k) ==
    IF k > Len(logs) THEN FALSE
    ELSE IF within_dist_max(distance_to(logs[k].uas_position,
                                        waypoint.position))
         THEN TRUE
         ELSE waypoint_satisfied(waypoint, logs, k + 1)

satisfied_waypoints(logs) ==
    LET waypoints == order_by(mission_waypoints)
    IN  [i \in 1..Len(waypoints) |-> waypoint_satisfied(waypoints[i], logs, 1)]

\* ----------------------------------------- MissionConfig.evaluate_teams

never_ignored(user) == FALSE

\* if user.is_superuser: continue
ignored(user) == is_superuser[user]

flight_periods(user) == flights(events[user]).periods

uas_period_logs(user) ==
    dedupe(by_time_period(telemetry[user], flight_periods(user)))

all_telemetry_logs(user) == dedupe_logs(telemetry[user])

\* uas_logs = list(itertools.chain.from_iterable(uas_period_logs))
uas_logs(user) == Flatten(uas_period_logs(user))

\* for i, hit in enumerate(waypoints_hit): waypoints_keyed[i + 1] = hit
\* (enumerate counts from 0; hit number i is waypoints_hit[i + 1] here)
waypoints_keyed(waypoints_hit) ==
    [key \in {i + 1 : i \in 0..(Len(waypoints_hit) - 1)} |->
        waypoints_hit[key]]

\* for logs in uas_period_logs: out_of_bounds_time += FlyZone.out_of_bounds(...)
RECURSIVE add_out_of_bounds(_, _)
add_out_of_bounds(total, period_logs) ==
    IF period_logs = <<>> THEN total
    ELSE add_out_of_bounds(total + out_of_bounds(fly_zones, Head(period_logs)),
                           Tail(period_logs))

out_of_bounds_carried(previous, user) ==
    add_out_of_bounds(previous, uas_period_logs(user))

out_of_bounds_flat(previous, user) == out_of_bounds(fly_zones, uas_logs(user))

\* out_of_bounds_time = 0, then the loop over the periods.  `previous` is
\* the value the local holds from the iteration before.
out_of_bounds_total(previous, user) ==
    add_out_of_bounds(0, uas_period_logs(user))

interop_entry_swapped(times) == [max |-> times[2], avg |-> times[1]]

\* {'max': times[0], 'avg': times[1]}
interop_entry(times) == [max |-> times[1], avg |-> times[2]]

interop_times(user) ==
    [server_info |->
        interop_entry(access_rates(server_info_access[user],
                                   flight_periods(user))),
     obst_info |->
        interop_entry(access_rates(obstacle_access[user],
                                   flight_periods(user))),
     uas_telem |->
        interop_entry(telemetry_rates(uas_period_logs(user)))]

stationary_collisions_last_period(user) ==
    [pk \in {obst.pk : obst \in stationary_obstacles} |->
        LET obst == CHOOSE o \in stationary_obstacles : o.pk = pk
            periods == uas_period_logs(user)
        IN  IF periods = <<>> THEN FALSE
            ELSE stationary_collision(obst, periods[Len(periods)])]

\* for obst in stationary_obstacles: stationary_collisions[obst.pk] = ...
stationary_collisions(user) ==
    [pk \in {obst.pk : obst \in stationary_obstacles} |->
        LET obst == CHOOSE o \in stationary_obstacles : o.pk = pk
        IN  stationary_collision(obst, uas_logs(user))]

\* for obst in moving_obstacles: moving_collisions[obst.pk] = ...
moving_collisions(user) ==
    [pk \in {obst.pk : obst \in moving_obstacles} |->
        LET obst == CHOOSE o \in moving_obstacles : o.pk = pk
        IN  moving_collision(obst, uas_logs(user))]

\* The eval_data one loop iteration builds for a user who is not ignored.
eval_data(previous, user) ==
    [waypoints_satisfied |-> waypoints_keyed(satisfied_waypoints(uas_logs(user))),
     out_of_bounds_time |-> out_of_bounds_total(previous, user),
     interop_times |-> interop_times(user),
     stationary_obst_collision |-> stationary_collisions(user),
     moving_obst_collision |-> moving_collisions(user)]

pending == Users \ visited

\* results = {}; users = User.objects.all()
EvaluateTeamsCall ==
    /\ pc = "idle"
    /\ pc' = "loop"
    /\ results' = <<>>
    /\ visited' = {}
    /\ UNCHANGED <<database, out_of_bounds_time, exc, sw_logs, sw_result>>

\* One iteration for an administrator: continue.
IgnoreAdmin ==
    /\ pc = "loop"
    /\ \E user \in pending :
        /\ ignored(user)
        /\ visited' = visited \cup {user}
    /\ UNCHANGED <<database, pc, results, out_of_bounds_time, exc,
                   sw_logs, sw_result>>

\* One iteration for a team, run to its end.
EvaluateUser ==
    /\ pc = "loop"
    /\ \E user \in pending :
        /\ ~ignored(user)
        /\ ~flights(events[user]).error
        /\ visited' = visited \cup {user}
        /\ results' = (user :> eval_data(out_of_bounds_time, user)) @@ results
        /\ out_of_bounds_time' = out_of_bounds_total(out_of_bounds_time, user)
    /\ UNCHANGED <<database, pc, exc, sw_logs, sw_result>>

\* One iteration for a team whose flights cannot be resolved: the data error
\* raised by TakeoffOrLandingEvent.flights is caught nowhere in evaluate_teams
\* and leaves it, after results.setdefault(user, {}).
EvaluateUserRaises ==
    /\ pc = "loop"
    /\ \E user \in pending :
        /\ ~ignored(user)
        /\ flights(events[user]).error
        /\ visited' = visited \cup {user}
        /\ results' = (user :> <<>>) @@ results
        /\ exc' = <<user>>
    /\ pc' = "raised"
    /\ UNCHANGED <<database, out_of_bounds_time, sw_logs, sw_result>>

\* return results
EvaluateTeamsReturn ==
    /\ pc = "loop"
    /\ pending = {}
    /\ pc' = "returned"
    /\ UNCHANGED <<database, visited, results, out_of_bounds_time, exc,
                   sw_logs, sw_result>>

\* A direct call satisfied_waypoints(uas_telemetry_logs).
PositionSeqs(n) == UNION {[1..k -> Positions] : k \in 0..n}

LogsAt(positions) ==
    [k \in 1..Len(positions) |->
        [timestamp |-> 5 * (k - 1), uas_position |-> positions[k]]]

SatisfiedWaypointsCall ==
    /\ pc = "idle"
    /\ \E positions \in PositionSeqs(MaxSamples) :
        /\ sw_logs' = LogsAt(positions)
        /\ sw_result' = satisfied_waypoints(LogsAt(positions))
    /\ pc' = "sw_returned"
    /\ UNCHANGED <<database, visited, results, out_of_bounds_time, exc>>

\* evaluate_teams, called once.
Next ==
    \/ EvaluateTeamsCall
    \/ IgnoreAdmin
    \/ EvaluateUser
    \/ EvaluateUserRaises
    \/ EvaluateTeamsReturn

\* satisfied_waypoints, called once.
NextCall == SatisfiedWaypointsCall

\* ------------------------------------------------------- initial states

Takeoff(t) == [timestamp |-> t, uas_in_air |-> TRUE]
Landing(t) == [timestamp |-> t, uas_in_air |-> FALSE]

\* Takeoffs and landings alternating at the times S, a takeoff first.
FlightEvents(S) ==
    LET ts == Ascending(S)
    IN  [i \in 1..Len(ts) |->
            [timestamp |-> ts[i], uas_in_air |-> (i % 2 = 1)]]

\* Complete flights, and flights with a last takeoff that never landed.
FlightEventSeqs == {FlightEvents(S) : S \in SUBSET Times}

TelemetryOf(f) ==
    LET ts == Ascending(DOMAIN f)
    IN  [i \in 1..Len(ts) |-> [timestamp |-> ts[i], uas_position |-> f[ts[i]]]]

\* Every telemetry history of at most n rows, at distinct times, at the
\* positions P.
TelemetrySeqs(n, P) ==
    {TelemetryOf(f) :
        f \in UNION {[S -> P] :
                        S \in {T \in SUBSET Times : Cardinality(T) <= n}}}

StampSeqs == {Ascending(S) : S \in SUBSET Times}

\* One row per time: positions 0, 1, .., MaxPos, 0, ..; the same backwards;
\* and one that reports every position twice.
Sweep == TelemetryOf([t \in Times |-> (t \div 5) % (MaxPos + 1)])
ReverseSweep == TelemetryOf([t \in Times |-> MaxPos - ((t \div 5) % (MaxPos + 1))])
Stutter == TelemetryOf([t \in Times |-> ((t \div 10) % (MaxPos + 1))])

\* Four rows at positions 1, 0, MaxPos, 0.
Zigzag ==
    TelemetryOf([t \in {0, 5, 10, 15} |->
                    CASE t = 0 -> 1 [] t = 10 -> MaxPos [] OTHER -> 0])

OneFlight == <<Takeoff(0), Landing(LastTime)>>
TwoFlights == <<Takeoff(0), Landing(5), Takeoff(10), Landing(15)>>

Logs(e, t, s, o) ==
    [events |-> e, telemetry |-> t, server_info_access |-> s,
     obstacle_access |-> o]

TeamLogs ==
    {Logs(<<>>, Sweep, <<0, 5, 15>>, <<5, 10>>),
     Logs(OneFlight, Sweep, <<0, 5, 15>>, <<5>>),
     Logs(OneFlight, Stutter, <<>>, <<0, 15>>),
     Logs(TwoFlights, ReverseSweep, <<0, 5, 10>>, <<0, 5, 10, 15>>),
     Logs(<<Takeoff(0), Landing(5), Takeoff(10)>>, Sweep, <<0, 5>>, <<>>),
     Logs(<<Landing(5)>>, ReverseSweep, <<>>, <<0, 5>>)}

AdminLogs == Logs(OneFlight, ReverseSweep, <<0, 15>>, <<0, 5>>)

Waypoint(order, position) == [order |-> order, position |-> position]
Zone(lo, hi) == [lo |-> lo, hi |-> hi]
Stationary(pk, position, radius) ==
    [pk |-> pk, position |-> position, radius |-> radius]
Moving(pk, path, radius) == [pk |-> pk, path |-> path, radius |-> radius]

\* A moving obstacle going 0, 1, .., MaxPos, 0, .., and one standing at p.
SweepPath == [t \in Times |-> (t \div 5) % (MaxPos + 1)]
StandPath(p) == [t \in Times |-> p]

Mission(w, d, z, so, mo) ==
    [mission_waypoints |-> w, mission_waypoints_dist_max |-> d,
     fly_zones |-> z, stationary_obstacles |-> so, moving_obstacles |-> mo]

BaseWaypoints == <<Waypoint(1, 0), Waypoint(2, MaxPos)>>
BaseZones == {Zone(0, MaxPos - 1)}
BaseStationary == {Stationary(1, MaxPos, 1)}
BaseMoving == {Moving(1, SweepPath, 1)}
BaseMission == Mission(BaseWaypoints, 1, BaseZones, BaseStationary, BaseMoving)

InitCall ==
    /\ pc = "idle"
    /\ visited = {}
    /\ results = <<>>
    /\ out_of_bounds_time = 0
    /\ exc = <<>>
    /\ sw_logs = <<>>
    /\ sw_result = <<>>

InitDatabase(flags, logs, mission) ==
    /\ is_superuser = flags
    /\ events = [u \in Users |-> logs[u].events]
    /\ telemetry = [u \in Users |-> logs[u].telemetry]
    /\ server_info_access = [u \in Users |-> logs[u].server_info_access]
    /\ obstacle_access = [u \in Users |-> logs[u].obstacle_access]
    /\ mission_waypoints = mission.mission_waypoints
    /\ mission_waypoints_dist_max = mission.mission_waypoints_dist_max
    /\ fly_zones = mission.fly_zones
    /\ stationary_obstacles = mission.stationary_obstacles
    /\ moving_obstacles = mission.moving_obstacles

\* User 1 is a team with the given logs, every other user an administrator.
OneTeam(logs, mission) ==
    InitDatabase([u \in Users |-> u # 1],
                 [u \in Users |-> IF u = 1 THEN logs ELSE AdminLogs],
                 mission)

\* Any mix of teams and administrators.
InitTeams ==
    \E flags \in [Users -> BOOLEAN], logs \in [Users -> TeamLogs] :
        InitDatabase(flags, logs, BaseMission)

\* Waypoint rows of any orders, unique or not, contiguous or not, in any
\* row order.
WaypointRowSeqs(orders, positions) ==
    UNION {[1..n -> {Waypoint(o, p) : o \in orders, p \in positions}] :
              n \in 0..MaxWaypoints}

InitOrders ==
    \E w \in WaypointRowSeqs(1..(MaxWaypoints + 1), {0, MaxPos}) :
        OneTeam(Logs(OneFlight, Sweep, <<0, 5>>, <<>>),
                Mission(w, 1, BaseZones, BaseStationary, BaseMoving))

\* Waypoints 1..n at any positions, any threshold.
InitDistances ==
    \E n \in 0..MaxWaypoints :
        \E p \in [1..n -> Positions], d \in Thresholds :
            OneTeam(Logs(OneFlight, Sweep, <<>>, <<5>>),
                    Mission([i \in 1..n |-> Waypoint(i, p[i])], d,
                            BaseZones, BaseStationary, BaseMoving))

\* Any flights and any telemetry of a team, with and without a fly zone.
InitBounds ==
    /\ InitCall
    /\ \E e \in FlightEventSeqs,
          t \in TelemetrySeqs(MaxSamples, {1, MaxPos}) \cup {Zigzag},
          z \in {{}, {Zone(1, MaxPos - 1)}} :
        OneTeam(Logs(e, t, <<>>, <<>>),
                Mission(BaseWaypoints, 1, z, BaseStationary, BaseMoving))

\* Any flights and any access log of a team.
InitRates ==
    /\ InitCall
    /\ \E e \in FlightEventSeqs, s \in StampSeqs, o \in {<<>>, <<0, 5, 15>>},
          t \in {Sweep, Stutter} :
        OneTeam(Logs(e, t, s, o), BaseMission)

\* Any flights and any telemetry of a team, with and without obstacles.
InitObstacles ==
    /\ InitCall
    /\ \E e \in FlightEventSeqs,
          t \in TelemetrySeqs(MaxSamples, {0, MaxPos}),
          o \in {<<{}, {}>>,
                 <<{Stationary(1, 0, 1), Stationary(2, MaxPos, 1),
                    Stationary(3, 0, 0)},
                   {Moving(1, SweepPath, 1), Moving(2, StandPath(MaxPos), 1),
                    Moving(3, StandPath(0), 0)}>>} :
        OneTeam(Logs(e, t, <<>>, <<>>),
                Mission(BaseWaypoints, 1, BaseZones, o[1], o[2]))

InitWaypoints ==
    /\ InitCall
    /\ \/ InitOrders
       \/ InitDistances

Init ==
    /\ InitCall
    /\ \/ InitTeams
       \/ InitOrders
       \/ InitDistances

\* evaluate_teams on any mix of users and on any waypoints.
Spec == Init /\ [][Next]_vars

\* evaluate_teams on any flights and telemetry.
SpecBounds == InitBounds /\ [][Next]_vars

\* evaluate_teams on any flights and access logs.
SpecRates == InitRates /\ [][Next]_vars

\* evaluate_teams on any flights, telemetry and obstacles.
SpecObstacles == InitObstacles /\ [][Next]_vars

\* satisfied_waypoints on any waypoints and logs.
SpecCall == InitWaypoints /\ [][NextCall]_vars

\* ------------------------------------------------------------ properties

NonAdmins == {u \in Users : ~is_superuser[u]}

\* The users whose iteration ran to its end.
Evaluated == {u \in DOMAIN results : results[u] # <<>>}

Periods(u) == flights(events[u]).periods

NoFlights(u) == ~flights(events[u]).error /\ Periods(u) = <<>>

RECURSIVE SumFn(_)
SumFn(f) ==
    IF DOMAIN f = {} THEN 0
    ELSE LET x == CHOOSE y \in DOMAIN f : TRUE
         IN  f[x] + SumFn([y \in DOMAIN f \ {x} |-> f[y]])

\* The rows of user u inside period i, as a set, and those of them dedupe
\* keeps: a row goes when the row just before it in the period has the same
\* position.
RowsIn(u, i) == {r \in Range(telemetry[u]) : within(Periods(u)[i], r.timestamp)}

RowBefore(R, r) ==
    {q \in R : /\ q.timestamp < r.timestamp
               /\ \A x \in R : ~(q.timestamp < x.timestamp
                                 /\ x.timestamp < r.timestamp)}

KeptIn(u, i) ==
    {r \in RowsIn(u, i) :
        \A q \in RowBefore(RowsIn(u, i), r) : q.uas_position # r.uas_position}

KeptAnywhere(u) == UNION {KeptIn(u, i) : i \in 1..Len(Periods(u))}

\* Position (1-based) of row j among the mission's waypoints by order.
RankOfRow(j) ==
    Cardinality({i \in 1..Len(mission_waypoints) :
        \/ mission_waypoints[i].order < mission_waypoints[j].order
        \/ /\ mission_waypoints[i].order = mission_waypoints[j].order
           /\ i <= j})

CloseTo(logs, position) ==
    \E k \in 1..Len(logs) :
        distance_to(logs[k].uas_position, position) < mission_waypoints_dist_max

\* C1: satisfied_waypoints returns one boolean per waypoint, and the one of
\* waypoint w is true exactly when some sample passed in is at a distance
\* strictly below the threshold from w (so a sample at exactly the threshold
\* does not count, and no samples give false everywhere).
C1_SatisfiedIffStrictlyWithin ==
    pc = "sw_returned" =>
        /\ DOMAIN sw_result = 1..Len(mission_waypoints)
        /\ \A j \in 1..Len(mission_waypoints) :
            sw_result[RankOfRow(j)]
                = CloseTo(sw_logs, mission_waypoints[j].position)
        /\ (sw_logs = <<>> => \A i \in DOMAIN sw_result : ~sw_result[i])

\* A call where one waypoint has a sample at exactly the threshold and is not
\* satisfied while another waypoint is.
C1_Witness ==
    /\ pc = "sw_returned"
    /\ mission_waypoints_dist_max > 0
    /\ \E j, h \in 1..Len(mission_waypoints) :
        /\ \E k \in 1..Len(sw_logs) :
            distance_to(sw_logs[k].uas_position, mission_waypoints[j].position)
                = mission_waypoints_dist_max
        /\ ~sw_result[RankOfRow(j)]
        /\ sw_result[RankOfRow(h)]

\* C2: while evaluate_teams loops, the keys of results are non-administrators
\* only, and when it returns they are exactly the non-administrators.
C2_KeysAreNonAdmins ==
    /\ DOMAIN results \subseteq NonAdmins
    /\ pc = "returned" => DOMAIN results = NonAdmins

\* evaluate_teams has returned with an administrator who has flights,
\* telemetry and access logs, and a team.
C2_Witness ==
    /\ pc = "returned"
    /\ \E a \in Users :
        /\ is_superuser[a]
        /\ events[a] # <<>> /\ telemetry[a] # <<>>
        /\ server_info_access[a] # <<>> /\ obstacle_access[a] # <<>>
        /\ a \notin DOMAIN results
    /\ DOMAIN results # {}

NoRates == [max |-> None, avg |-> None]

\* C3: a team without flight periods is evaluated without error and gets a
\* record: every waypoint unsatisfied, out_of_bounds_time 0, every max and avg
\* None, no collision with any obstacle.
C3_NoFlightsGivesDefaults ==
    \A u \in NonAdmins :
        NoFlights(u) =>
            /\ exc # <<u>>
            /\ pc = "returned" => u \in DOMAIN results
            /\ u \in visited =>
                /\ u \in Evaluated
                /\ Cardinality(DOMAIN results[u].waypoints_satisfied)
                       = Len(mission_waypoints)
                /\ \A k \in DOMAIN results[u].waypoints_satisfied :
                       ~results[u].waypoints_satisfied[k]
                /\ results[u].out_of_bounds_time = 0
                /\ results[u].interop_times =
                       [server_info |-> NoRates, obst_info |-> NoRates,
                        uas_telem |-> NoRates]
                /\ results[u].stationary_obst_collision =
                       [pk \in {o.pk : o \in stationary_obstacles} |-> FALSE]
                /\ results[u].moving_obst_collision =
                       [pk \in {o.pk : o \in moving_obstacles} |-> FALSE]

\* A returned report holding a team that never flew but sent telemetry (close
\* to a waypoint, out of bounds, inside an obstacle) and used both interfaces.
C3_Witness ==
    /\ pc = "returned"
    /\ mission_waypoints # <<>>
    /\ \E u \in Evaluated :
        /\ NoFlights(u)
        /\ Len(server_info_access[u]) >= 2 /\ Len(obstacle_access[u]) >= 2
        /\ \E j \in 1..Len(mission_waypoints) :
            CloseTo(telemetry[u], mission_waypoints[j].position)
        /\ \E k \in 2..Len(telemetry[u]) :
            ~in_bounds(fly_zones, telemetry[u][k].uas_position)
        /\ \E o \in stationary_obstacles :
            stationary_collision(o, telemetry[u])
        /\ \E o \in moving_obstacles : moving_collision(o, telemetry[u])

UniqueOrders ==
    \A i, j \in 1..Len(mission_waypoints) :
        mission_waypoints[i].order = mission_waypoints[j].order => i = j

\* C4 (as claimed): for unique orders >= 1, waypoints_satisfied is keyed by
\* the waypoints' orders, and the value under an order is that waypoint's
\* result.
C4_KeyedByOrder ==
    \A u \in Evaluated :
        UniqueOrders =>
            /\ DOMAIN results[u].waypoints_satisfied
                   = {mission_waypoints[j].order :
                         j \in 1..Len(mission_waypoints)}
            /\ \A j \in 1..Len(mission_waypoints) :
                results[u].waypoints_satisfied[mission_waypoints[j].order]
                    = CloseTo(uas_logs(u), mission_waypoints[j].position)

\* The reported time out of bounds of period i of user u: every kept row that
\* is out of bounds adds the time since the kept row before it in the period.
Excursion(u, i) ==
    SumFn([r \in {x \in KeptIn(u, i) :
                     /\ ~in_bounds(fly_zones, x.uas_position)
                     /\ RowBefore(KeptIn(u, i), x) # {}} |->
              r.timestamp
                - (CHOOSE q \in RowBefore(KeptIn(u, i), r) : TRUE).timestamp])

\* The list `logs` with one more row, at its place in time.
WithRow(logs, row) ==
    SelectSeq(logs, LAMBDA r : r.timestamp < row.timestamp)
        \o <<row>>
        \o SelectSeq(logs, LAMBDA r : r.timestamp > row.timestamp)

C6_ErrorAbortsOneRecordOnly ==
    exc # <<>> =>
        /\ pc \in {"loop", "returned"}
        /\ pc = "returned" =>
            \A u \in NonAdmins \ Range(exc) :
                u \in Evaluated /\ results[u] = eval_data(0, u)

\* C7: whatever the order the loop takes the users in, each record written
\* is the one the user's own rows and the mission's data give, it is never
\* changed by a later iteration, and the report returned is the same map.
C7_RecordsIndependentOfOrder ==
    /\ \A u \in Evaluated : results[u] = eval_data(0, u)
    /\ pc = "returned" =>
        results = [u \in NonAdmins |-> eval_data(0, u)]

\* A returned report with two teams whose records differ, both with time
\* out of bounds.
C7_Witness ==
    /\ pc = "returned"
    /\ \E u, v \in Evaluated :
        /\ results[u] # results[v]
        /\ results[u].out_of_bounds_time > 0
        /\ results[v].out_of_bounds_time > results[u].out_of_bounds_time

\* The gaps between consecutive elements of a set of timestamps, as pairs.
GapsIn(S) ==
    {g \in S \X S :
        /\ g[1] < g[2]
        /\ \A x \in S : ~(g[1] < x /\ x < g[2])}

\* The timestamps of a log that lie inside period i of user u.
StampsIn(stamps, u, i) == {t \in Range(stamps) : within(Periods(u)[i], t)}

KeptStampsIn(u, i) == {r.timestamp : r \in KeptIn(u, i)}

\* entry is {max, avg} of the gaps inside the periods, stamps[i] being the
\* timestamps of period i: None and None without a gap, else the largest gap
\* and the sum of the gaps over their number.
RatesAre(entry, stamps) ==
    LET gaps == {<<i, g>> \in (DOMAIN stamps) \X (Times \X Times) :
                    g \in GapsIn(stamps[i])}
        total == SumFn([x \in gaps |-> x[2][2] - x[2][1]])
    IN  IF gaps = {}
        THEN entry.max = None /\ entry.avg = None
        ELSE /\ entry.max # None /\ entry.avg # None
             /\ entry.max[2] = 1
             /\ \E x \in gaps : entry.max[1] = x[2][2] - x[2][1]
             /\ \A x \in gaps : entry.max[1] >= x[2][2] - x[2][1]
             /\ entry.avg[2] > 0
             /\ entry.avg[1] * Cardinality(gaps) = total * entry.avg[2]

\* C8: for server_info, obst_info and uas_telem, max and avg are the largest
\* and the mean gap between consecutive events inside one flight period, over
\* all periods; timestamps 0, 5, 15 in one period give 10 and 7.5; fewer than
\* two events inside the periods give None and None, not 0; the events of
\* uas_telem are the rows dedupe kept in each period.
C8_InteropRates ==
    \A u \in Evaluated :
        LET n == Len(Periods(u))
            server == [i \in 1..n |-> StampsIn(server_info_access[u], u, i)]
            obst == [i \in 1..n |-> StampsIn(obstacle_access[u], u, i)]
            telem == [i \in 1..n |-> KeptStampsIn(u, i)]
            times == results[u].interop_times
        IN  /\ RatesAre(times.server_info, server)
            /\ RatesAre(times.obst_info, obst)
            /\ RatesAre(times.uas_telem, telem)
            /\ \A c \in {<<times.server_info, server>>,
                         <<times.obst_info, obst>>,
                         <<times.uas_telem, telem>>} :
                /\ SumFn([i \in 1..n |-> Cardinality(c[2][i])]) < 2
                       => c[1] = [max |-> None, avg |-> None]
                /\ (n = 1 /\ c[2][1] = {0, 5, 15})
                       => c[1] = [max |-> Number(10, 1), avg |-> Number(15, 2)]

\* A team with server-info events at 0, 5 and 15 in its one flight: max 10,
\* avg 7.5; its telemetry has a repeated row that dedupe dropped.
C8_Witness ==
    \E u \in Evaluated :
        /\ Len(Periods(u)) = 1
        /\ StampsIn(server_info_access[u], u, 1) = {0, 5, 15}
        /\ results[u].interop_times.server_info
               = [max |-> <<10, 1>>, avg |-> <<15, 2>>]
        /\ KeptIn(u, 1) # RowsIn(u, 1)
        /\ results[u].interop_times.uas_telem.max # None
        /\ results[u].interop_times.obst_info.max = None

DuplicateOrders == ~UniqueOrders

\* C9 (as claimed): with two waypoints of the same order the evaluation ends
\* in an error: neither satisfied_waypoints nor evaluate_teams returns a
\* result.
C9_DuplicateOrdersRejected ==
    DuplicateOrders => pc \notin {"sw_returned", "returned"}

StationaryHit(u, o) ==
    \E r \in KeptAnywhere(u) :
        distance_to(r.uas_position, o.position) < o.radius

MovingHit(u, o) ==
    \E r \in KeptAnywhere(u) :
        distance_to(r.uas_position, o.path[r.timestamp]) < o.radius

\* C10: each record has one stationary_obst_collision entry per stationary
\* obstacle and one moving_obst_collision entry per moving obstacle, under the
\* obstacle's id; the entry of an obstacle is true exactly when a row dedupe
\* kept in some flight period is inside that obstacle, whatever the other
\* obstacles are; rows outside the flight periods never count.
C10_CollisionsPerObstacle ==
    \A u \in Evaluated :
        /\ DOMAIN results[u].stationary_obst_collision
               = {o.pk : o \in stationary_obstacles}
        /\ DOMAIN results[u].moving_obst_collision
               = {o.pk : o \in moving_obstacles}
        /\ \A o \in stationary_obstacles :
            results[u].stationary_obst_collision[o.pk] = StationaryHit(u, o)
        /\ \A o \in moving_obstacles :
            results[u].moving_obst_collision[o.pk] = MovingHit(u, o)

\* A team with two flights that was inside one stationary obstacle during the
\* first flight only, and inside another only between the flights.
C10_Witness ==
    \E u \in Evaluated :
        /\ Len(Periods(u)) = 2
        /\ \E o, q \in stationary_obstacles :
            /\ \E r \in KeptIn(u, 1) :
                distance_to(r.uas_position, o.position) < o.radius
            /\ \A r \in KeptIn(u, 2) :
                distance_to(r.uas_position, o.position) >= o.radius
            /\ results[u].stationary_obst_collision[o.pk]
            /\ \E r \in Range(telemetry[u]) :
                distance_to(r.uas_position, q.position) < q.radius
            /\ ~results[u].stationary_obst_collision[q.pk]
        /\ \E m \in moving_obstacles : results[u].moving_obst_collision[m.pk]

====
